---- MODULE Spec2Model ----
(***************************************************************************)
(* Model of app.py, the Streamlit AQI prediction script.                   *)
(*                                                                         *)
(* Streamlit executes the whole script from top to bottom once per user    *)
(* interaction (page open, radio change, number edit, button press).  One  *)
(* action of this model is therefore one complete script run: the four     *)
(* load_pickle calls, the halt gate, the widgets, and - when the button    *)
(* was pressed - the prediction block up to the results display.           *)
(*                                                                         *)
(* Floats are records [k, n]: k is "fin", "nan", "pinf" or "ninf" and, for *)
(* a finite float, n is its numerator over the denominator Den.            *)
(***************************************************************************)
EXTENDS Integers, Sequences, FiniteSets, TLC

\* ---------------------------------------------------------------- bounds
MaxRuns == 4

\* ---------------------------------------------------- float representation
\* Denominator of finite floats: 1/210000 resolves both the 0.01 display
\* step of "%.2f" and the images of the factor 1.05 (210000 / 105 = 2000).
Den == 210000

Fin(n) == [k |-> "fin", n |-> n]
NaN == [k |-> "nan", n |-> 0]
PInf == [k |-> "pinf", n |-> 0]
NInf == [k |-> "ninf", n |-> 0]

\* IEEE comparison a <= b: false as soon as one side is NaN.
FLe(a, b) ==
    /\ a.k # "nan"
    /\ b.k # "nan"
    /\ \/ a.k = "ninf"
       \/ b.k = "pinf"
       \/ (a.k = "fin" /\ b.k = "fin" /\ a.n <= b.n)

\* np.maximum / np.minimum: NaN propagates.
np_maximum(a, b) == IF a.k = "nan" THEN a ELSE IF b.k = "nan" THEN b ELSE IF FLe(a, b) THEN b ELSE a
np_minimum(a, b) == IF a.k = "nan" THEN a ELSE IF b.k = "nan" THEN b ELSE IF FLe(a, b) THEN a ELSE b

\* A clip that forgets the upper bound.
np_clip_noupper(x, lo, hi) == np_maximum(x, Fin(lo * Den))

\* np.clip(x, lo, hi) = minimum(maximum(x, lo), hi)
np_clip(x, lo, hi) == np_minimum(np_maximum(x, Fin(lo * Den)), Fin(hi * Den))

\* 1.05 * predicted_aqi + 10
Affine(x) ==
    IF x.k = "fin"
    THEN Fin(105 * (x.n \div 100) + ((105 * (x.n % 100)) \div 100) + 10 * Den)
    ELSE x

\* f"{x:.2f}": the nearest hundredth, ties to even; n is then in hundredths.
Format2f(x) ==
    IF x.k = "fin"
    THEN LET u == Den \div 100
             q == x.n \div u
             r == x.n % u
         IN  Fin(IF 2 * r < u THEN q
                 ELSE IF 2 * r > u THEN q + 1
                 ELSE IF q % 2 = 0 THEN q ELSE q + 1)
    ELSE x

\* ------------------------------------------------------------- buckets
\* The markers are the six emoji of the source, named by colour.
\* A bucket function whose first comparison is strict.
assign_aqi_bucket_strict(aqi) ==
    IF aqi.k = "fin" /\ aqi.n < 50 * Den THEN <<"Good", "green">>
    ELSE IF FLe(aqi, Fin(100 * Den)) THEN <<"Satisfactory", "yellow">>
    ELSE IF FLe(aqi, Fin(200 * Den)) THEN <<"Moderate", "orange">>
    ELSE IF FLe(aqi, Fin(300 * Den)) THEN <<"Poor", "red">>
    ELSE IF FLe(aqi, Fin(400 * Den)) THEN <<"Very Poor", "purple">>
    ELSE <<"Severe", "black">>

\* A bucket function that lost its "Poor" branch.
assign_aqi_bucket_nopoor(aqi) ==
    IF FLe(aqi, Fin(50 * Den)) THEN <<"Good", "green">>
    ELSE IF FLe(aqi, Fin(100 * Den)) THEN <<"Satisfactory", "yellow">>
    ELSE IF FLe(aqi, Fin(200 * Den)) THEN <<"Moderate", "orange">>
    ELSE IF FLe(aqi, Fin(400 * Den)) THEN <<"Very Poor", "purple">>
    ELSE <<"Severe", "black">>

assign_aqi_bucket(aqi) ==
    IF FLe(aqi, Fin(50 * Den)) THEN <<"Good", "green">>
    ELSE IF FLe(aqi, Fin(100 * Den)) THEN <<"Satisfactory", "yellow">>
    ELSE IF FLe(aqi, Fin(200 * Den)) THEN <<"Moderate", "orange">>
    ELSE IF FLe(aqi, Fin(300 * Den)) THEN <<"Poor", "red">>
    ELSE IF FLe(aqi, Fin(400 * Den)) THEN <<"Very Poor", "purple">>
    ELSE <<"Severe", "black">>

\* ------------------------------------------------------------ artifacts
Artifacts == {"model_with", "model_without", "scaler_with", "scaler_without"}

\* The order of the four load_pickle calls.
LoadOrder == <<"model_with", "model_without", "scaler_with", "scaler_without">>

Path == [model_with |-> "best_model_with_Xylene.pkl",
         model_without |-> "best_model.pkl",
         scaler_with |-> "scaler_with.pkl",
         scaler_without |-> "scaler_without.pkl"]

\* What a file holds: "ok" unpickles to an object that evaluates as true,
\* "falsy" unpickles without raising to an object that evaluates as false
\* (an empty container), "missing" makes open or pickle.load raise.
DiskStates == {"ok", "falsy", "missing"}

None == [kind |-> "none", truthy |-> FALSE, gen |-> 0]

\* load_pickle(path): the object of this run's deserialization, or None.
load_pickle(d, a, g) ==
    IF d[a] = "missing" THEN None
    ELSE [kind |-> "obj", truthy |-> (d[a] = "ok"), gen |-> g]

\* The st.error of load_pickle's except branch.
LoadError(a) == [kind |-> "load_failed", path |-> Path[a]]
MissingError == [kind |-> "missing_files", path |-> ""]
PredictError == [kind |-> "prediction_failed", path |-> ""]

RECURSIVE LoadErrors(_, _)
LoadErrors(d, i) ==
    IF i > Len(LoadOrder) THEN <<>>
    ELSE (IF d[LoadOrder[i]] = "missing" THEN <<LoadError(LoadOrder[i])>> ELSE <<>>)
         \o LoadErrors(d, i + 1)

\* A gate that stops only when no artifact at all is usable.
HaltGate_any(o) == ~ \E a \in Artifacts : o[a].truthy

\* not all([model_with, model_without, scaler_with, scaler_without])
HaltGate(o) == ~ \A a \in Artifacts : o[a].truthy

\* ------------------------------------------------------------- features
features_without == <<"PM2.5", "PM10", "NO", "NO2", "NOx", "NH3", "CO", "SO2", "O3", "Benzene", "Toluene">>

\* A schema that puts the extra pollutant first.
features_with_front == <<"Xylene">> \o features_without

features_with == features_without \o <<"Xylene">>

Features == {features_with[i] : i \in 1..Len(features_with)}

Modes == {"With Xylene", "Without Xylene"}

selected_features(choice) == IF choice = "With Xylene" THEN features_with ELSE features_without

\* user_input[feature] = value on a dict that keeps insertion order.
DictPut(dict, key, val) ==
    IF \E j \in 1..Len(dict) : dict[j].name = key
    THEN [j \in 1..Len(dict) |-> IF dict[j].name = key THEN [name |-> key, value |-> val] ELSE dict[j]]
    ELSE Append(dict, [name |-> key, value |-> val])

\* The for loop over enumerate(selected_features).
RECURSIVE CollectInput(_, _, _, _)
CollectInput(sel, w, i, dict) ==
    IF i > Len(sel) THEN dict
    ELSE CollectInput(sel, w, i + 1, DictPut(dict, sel[i], w[sel[i]]))

\* A selection that pairs the scaler of one mode with the model of the other.
SelectArtifacts_crossed(choice) ==
    IF choice = "With Xylene"
    THEN [model |-> "model_with", scaler |-> "scaler_with"]
    ELSE [model |-> "model_without", scaler |-> "scaler_with"]

\* if model_choice == "With Xylene": ... else: ...
SelectArtifacts(choice) ==
    IF choice = "With Xylene"
    THEN [model |-> "model_with", scaler |-> "scaler_with"]
    ELSE [model |-> "model_without", scaler |-> "scaler_without"]

\* An except branch that swallows nothing.
Caught_never(e) == FALSE

\* except Exception: st.error(...); st.stop()
Caught(e) == e # "none"

\* ---------------------------------------------------------------- inputs
\* Values a number_input can hold, in hundredths (min_value 0.0, step 0.01).
InputValues == {0, 1250}

\* What the trigger's transform / predict can do.
Excs == {"none", "transform", "predict"}

\* Raw predictions: numerators over Den.  2000 * (T - 10) * 100 calibrates
\* to exactly T.
RawFinite == { 100 * m : m \in {-210000, -20000, 0, 80000, 80001, 80020, 180000, 180020,
                                189000, 380000, 380020, 580000, 580020, 780000, 780001,
                                780020, 980000, 2100000} }
RawValues == {Fin(n) : n \in RawFinite} \cup {NaN, PInf, NInf}

\* ----------------------------------------------------------------- state
VARIABLES disk, runs, loads, objs, errors, ui, model_choice, widgets,
          button, exc, invoked, vector, predicted, calibrated, shown,
          stage, prevStage

vars == <<disk, runs, loads, objs, errors, ui, model_choice, widgets,
          button, exc, invoked, vector, predicted, calibrated, shown,
          stage, prevStage>>

DefaultWidgets == [f \in Features |-> 0]

Init ==
    /\ disk \in [Artifacts -> DiskStates]
    /\ runs = 0
    /\ loads = [a \in Artifacts |-> 0]
    /\ objs = [a \in Artifacts |-> None]
    /\ errors = <<>>
    /\ ui = FALSE
    /\ model_choice = "With Xylene"
    /\ widgets = DefaultWidgets
    /\ button = FALSE
    /\ exc = "none"
    /\ invoked = <<>>
    /\ vector = <<>>
    /\ predicted = <<>>
    /\ calibrated = <<>>
    /\ shown = <<>>
    /\ stage = "start"
    /\ prevStage = "start"

\* One execution of the script with the radio at choice, the number inputs
\* at w, the button pressed or not, and - for a pressed button - what
\* transform and predict do: raise (e) or return raw as first element.
ScriptRun(choice, w, btn, e, raw) ==
    LET o == [a \in Artifacts |-> load_pickle(disk, a, runs + 1)]
        loadErrs == LoadErrors(disk, 1)
        halt == HaltGate(o)
        sel == selected_features(choice)
        user_input == CollectInput(sel, w, 1, <<>>)
        pick == SelectArtifacts(choice)
        scalerOk == o[pick.scaler].kind = "obj"
        modelOk == o[pick.model].kind = "obj"
        \* where the try block raises, if it does
        raisedAt == IF ~scalerOk \/ e = "transform" THEN "transform"
                    ELSE IF ~modelOk \/ e = "predict" THEN "predict"
                    ELSE "none"
        calls == (IF scalerOk THEN <<[name |-> pick.scaler, gen |-> o[pick.scaler].gen]>> ELSE <<>>)
                 \o (IF raisedAt # "transform" /\ modelOk
                     THEN <<[name |-> pick.model, gen |-> o[pick.model].gen]>> ELSE <<>>)
        cal == np_clip(Affine(raw), 0, 500)
        res == assign_aqi_bucket(cal)
    IN  /\ runs < MaxRuns
        /\ runs' = runs + 1
        /\ disk' = disk
        /\ loads' = [a \in Artifacts |-> IF disk[a] = "missing" THEN loads[a] ELSE loads[a] + 1]
        /\ objs' = o
        /\ button' = btn
        /\ exc' = e
        /\ prevStage' = stage
        /\ model_choice' = choice
        /\ IF halt
           THEN /\ errors' = loadErrs \o <<MissingError>>
                /\ ui' = FALSE
                /\ widgets' = DefaultWidgets
                /\ invoked' = <<>>
                /\ vector' = <<>>
                /\ predicted' = <<>>
                /\ calibrated' = <<>>
                /\ shown' = <<>>
                /\ stage' = "halted"
           ELSE /\ ui' = TRUE
                /\ widgets' = [f \in Features |->
                                 IF \E i \in 1..Len(sel) : sel[i] = f THEN w[f] ELSE 0]
                /\ IF ~btn
                   THEN /\ errors' = loadErrs
                        /\ invoked' = <<>>
                        /\ vector' = <<>>
                        /\ predicted' = <<>>
                        /\ calibrated' = <<>>
                        /\ shown' = <<>>
                        /\ stage' = "idle"
                   ELSE /\ invoked' = calls
                        /\ vector' = IF scalerOk THEN user_input ELSE <<>>
                        /\ IF Caught(raisedAt)
                           THEN /\ errors' = loadErrs \o <<PredictError>>
                                /\ predicted' = <<>>
                                /\ calibrated' = <<>>
                                /\ shown' = <<>>
                                /\ stage' = "failed"
                           ELSE /\ errors' = loadErrs
                                /\ predicted' = <<raw>>
                                /\ calibrated' = <<cal>>
                                /\ shown' = <<[metric |-> Format2f(cal),
                                               bucket |-> res[1],
                                               emoji |-> res[2]]>>
                                /\ stage' = "shown"

\* The browser opens the page: first run of a session, widgets at defaults.
OpenPage ==
    /\ stage = "start"
    /\ ScriptRun("With Xylene", DefaultWidgets, FALSE, "none", NaN)

\* The browser reloads the page: a new session of the same script.
Reload ==
    /\ stage # "start"
    /\ ScriptRun("With Xylene", DefaultWidgets, FALSE, "none", NaN)

\* The user picks the other radio option.
SwitchMode ==
    /\ ui
    /\ \E m \in Modes :
         /\ m # model_choice
         /\ ScriptRun(m, widgets, FALSE, "none", NaN)

\* The user changes one rendered number input.
EditInput ==
    /\ ui
    /\ \E i \in 1..Len(selected_features(model_choice)), v \in InputValues :
         LET f == selected_features(model_choice)[i]
         IN  /\ v # widgets[f]
             /\ ScriptRun(model_choice, [widgets EXCEPT ![f] = v], FALSE, "none", NaN)

\* The user presses "Predict AQI".
Predict ==
    /\ ui
    /\ \E e \in Excs, raw \in RawValues :
         ScriptRun(model_choice, widgets, TRUE, e, raw)

Next == OpenPage \/ Reload \/ SwitchMode \/ EditInput \/ Predict

Spec == Init /\ [][Next]_vars

\* ================================================================ claims

\* C1: after a Predict trigger that shows a result, the calibrated AQI is
\* clamp(1.05 * r + 10, 0, 500) of the raw prediction r (below 0 becomes 0,
\* above 500 becomes 500, a value that is neither stays as it is), and the
\* calibration is monotonic non-decreasing over the raw predictions.
C1_Calibration ==
    /\ stage = "shown" =>
         LET r == predicted[1]
             c == calibrated[1]
             lin == 105 * (r.n \div 100) + 10 * Den
         IN  /\ (r.k = "fin" /\ r.n % 100 = 0) =>
                   /\ c.k = "fin"
                   /\ lin < 0 => c.n = 0
                   /\ lin > 500 * Den => c.n = 500 * Den
                   /\ (0 <= lin /\ lin <= 500 * Den) => c.n = lin
             /\ r.k = "pinf" => c = Fin(500 * Den)
             /\ r.k = "ninf" => c = Fin(0)
             /\ r.k = "nan" => c.k = "nan"
    /\ \A r1, r2 \in RawValues :
         FLe(r1, r2) => FLe(np_clip(Affine(r1), 0, 500), np_clip(Affine(r2), 0, 500))

\* C1 witness: raw 1000.0 was calibrated to 1060.0 and clamped to 500.0, Severe.
C1_Witness ==
    /\ stage = "shown"
    /\ predicted[1] = Fin(1000 * Den)
    /\ calibrated[1] = Fin(500 * Den)
    /\ shown[1].bucket = "Severe"

\* C2: for a clamped value v in [0, 500] the bucket is the one label given by
\* the upper-inclusive thresholds 50, 100, 200, 300, 400, and every label
\* comes with its own fixed marker.
C2_Bucket ==
    (stage = "shown" /\ calibrated[1].k = "fin") =>
        LET v == calibrated[1].n
            b == shown[1].bucket
            e == shown[1].emoji
        IN  /\ 0 <= v /\ v <= 500 * Den
            /\ b \in {"Good", "Satisfactory", "Moderate", "Poor", "Very Poor", "Severe"}
            /\ (b = "Good") <=> (v <= 50 * Den)
            /\ (b = "Satisfactory") <=> (50 * Den < v /\ v <= 100 * Den)
            /\ (b = "Moderate") <=> (100 * Den < v /\ v <= 200 * Den)
            /\ (b = "Poor") <=> (200 * Den < v /\ v <= 300 * Den)
            /\ (b = "Very Poor") <=> (300 * Den < v /\ v <= 400 * Den)
            /\ (b = "Severe") <=> (v > 400 * Den)
            /\ (b = "Good") <=> (e = "green")
            /\ (b = "Satisfactory") <=> (e = "yellow")
            /\ (b = "Moderate") <=> (e = "orange")
            /\ (b = "Poor") <=> (e = "red")
            /\ (b = "Very Poor") <=> (e = "purple")
            /\ (b = "Severe") <=> (e = "black")

\* C2 witness: the value 50.0 exactly was shown as Good.
C2_Witness ==
    /\ stage = "shown"
    /\ calibrated[1] = Fin(50 * Den)
    /\ shown[1].bucket = "Good"
    /\ shown[1].emoji = "green"

\* C3: a Predict trigger invokes artifacts of the selected mode only: the
\* scaler of that mode first and, once transform returned, the model of the
\* same mode; never an artifact of the other mode, never a crossed pair.  A
\* run without trigger invokes nothing.
C3_ModeIsolation ==
    LET names == {invoked[i].name : i \in 1..Len(invoked)}
    IN  /\ ~button => invoked = <<>>
        /\ (button /\ ui) =>
             /\ Len(invoked) >= 1
             /\ Len(invoked) <= 2
             /\ model_choice = "With Xylene" =>
                  /\ names \subseteq {"scaler_with", "model_with"}
                  /\ invoked[1].name = "scaler_with"
             /\ model_choice = "Without Xylene" =>
                  /\ names \subseteq {"scaler_without", "model_without"}
                  /\ invoked[1].name = "scaler_without"
             /\ Len(invoked) = 2 => invoked[2].name # invoked[1].name
             /\ exc # "transform" => Len(invoked) = 2

\* C3 witness: after a trigger in the other mode, a trigger in mode
\* "Without Xylene" used scaler_without and then model_without.
C3_Witness ==
    /\ button
    /\ runs >= 3
    /\ model_choice = "Without Xylene"
    /\ Len(invoked) = 2
    /\ invoked[1].name = "scaler_without"
    /\ invoked[2].name = "model_without"

\* C4: the vector handed to the scaler has the 11 features of the schema in
\* the fixed order in mode "without" and the same 11 followed by Xylene in
\* mode "with", each feature once, each with the value of its input field.
C4_FeatureVector ==
    (button /\ ui) =>
        LET order == <<"PM2.5", "PM10", "NO", "NO2", "NOx", "NH3", "CO", "SO2",
                       "O3", "Benzene", "Toluene", "Xylene">>
            n == IF model_choice = "With Xylene" THEN 12 ELSE 11
        IN  /\ Len(vector) = n
            /\ \A i \in 1..n :
                 /\ vector[i].name = order[i]
                 /\ vector[i].value = widgets[order[i]]
            /\ \A i, j \in 1..n : vector[i].name = vector[j].name => i = j

\* C4 witness: a 12-entry vector with an edited Xylene value in 12th place.
C4_Witness ==
    /\ button
    /\ model_choice = "With Xylene"
    /\ Len(vector) = 12
    /\ vector[12].name = "Xylene"
    /\ vector[12].value = 1250

\* C5: when an artifact fails to load, the run stops at the gate: no
\* selector, input or trigger is rendered, nothing is invoked or shown, and
\* an error naming the path was produced for every artifact that failed.
C5_MissingArtifact ==
    (runs > 0 /\ \E a \in Artifacts : disk[a] = "missing") =>
        /\ ~ui
        /\ stage = "halted"
        /\ invoked = <<>>
        /\ shown = <<>>
        /\ \A a \in Artifacts :
             disk[a] = "missing" =>
                \E i \in 1..Len(errors) :
                    errors[i].kind = "load_failed" /\ errors[i].path = Path[a]

\* C5 witness: only scaler_without.pkl is missing and the run halted.
C5_Witness ==
    /\ stage = "halted"
    /\ disk["scaler_without"] = "missing"
    /\ \A a \in Artifacts \ {"scaler_without"} : disk[a] = "ok"
    /\ errors[1].path = "scaler_without.pkl"

\* C6: a trigger whose transform or predict raises shows the error message
\* and no result, leaves the interface rendered, and a trigger right after
\* it on which both succeed shows a result.
C6_PredictionFailure ==
    /\ (button /\ ui /\ exc # "none") =>
         /\ stage = "failed"
         /\ shown = <<>>
         /\ calibrated = <<>>
         /\ \E i \in 1..Len(errors) : errors[i].kind = "prediction_failed"
    /\ (prevStage = "failed" /\ button /\ exc = "none") =>
         /\ stage = "shown"
         /\ Len(shown) = 1

\* C6 witness: a failed trigger was followed by a trigger that shows a result.
C6_Witness ==
    /\ prevStage = "failed"
    /\ stage = "shown"
    /\ Len(shown) = 1

\* The six bands as (lower, upper, label, lower bound included).
BandsHalfOpen ==
    <<[lo |-> 0, hi |-> 50, label |-> "Good", closed |-> FALSE],
      [lo |-> 50, hi |-> 100, label |-> "Satisfactory", closed |-> FALSE],
      [lo |-> 100, hi |-> 200, label |-> "Moderate", closed |-> FALSE],
      [lo |-> 200, hi |-> 300, label |-> "Poor", closed |-> FALSE],
      [lo |-> 300, hi |-> 400, label |-> "Very Poor", closed |-> FALSE],
      [lo |-> 400, hi |-> 500, label |-> "Severe", closed |-> FALSE]>>

BandsFirstClosed == [BandsHalfOpen EXCEPT ![1].closed = TRUE]

InBand(v, band) ==
    /\ (band.lo * Den < v \/ (band.closed /\ band.lo * Den = v))
    /\ v <= band.hi * Den

PartitionedBy(bands) ==
    (stage = "shown" /\ calibrated[1].k = "fin") =>
        LET v == calibrated[1].n
            hits == {i \in 1..Len(bands) : InBand(v, bands[i])}
        IN  /\ Cardinality(hits) = 1
            /\ \A i \in hits : shown[1].bucket = bands[i].label

\* C7 as stated: every clamped value, 0 included, lies in exactly one of
\* (0,50], (50,100], (100,200], (200,300], (300,400], (400,500] and gets
\* that band's label.
C7_HalfOpenBands == PartitionedBy(BandsHalfOpen)

\* C7 amended: with the first band closed at 0, [0,50], every clamped value
\* lies in exactly one of the six bands and gets that band's label.
C7_Bands == PartitionedBy(BandsFirstClosed)

\* C7 witness: the clamped value 0 was shown as Good.
C7_Witness ==
    /\ stage = "shown"
    /\ calibrated[1] = Fin(0)
    /\ shown[1].bucket = "Good"

\* C8: each artifact file is deserialized once, and every prediction uses
\* the objects of that first load.
C8_LoadedOnce ==
    /\ \A a \in Artifacts : loads[a] <= 1
    /\ \A i \in 1..Len(invoked) : invoked[i].gen = 1

\* C9: a displayed AQI number lies in [0, 500] and the displayed label and
\* marker are those of the band that contains the displayed number.
C9_DisplayedResult ==
    stage = "shown" =>
        LET m == shown[1].metric
            band == IF m.n <= 5000 THEN <<"Good", "green">>
                    ELSE IF m.n <= 10000 THEN <<"Satisfactory", "yellow">>
                    ELSE IF m.n <= 20000 THEN <<"Moderate", "orange">>
                    ELSE IF m.n <= 30000 THEN <<"Poor", "red">>
                    ELSE IF m.n <= 40000 THEN <<"Very Poor", "purple">>
                    ELSE <<"Severe", "black">>
        IN  /\ m.k = "fin"
            /\ 0 <= m.n /\ m.n <= 50000
            /\ <<shown[1].bucket, shown[1].emoji>> = band

\* C10: the gate stops a run exactly when some artifact failed to load.
C10_GateExact ==
    runs > 0 => ((stage = "halted") <=> (\E a \in Artifacts : disk[a] = "missing"))

====
